---- MODULE Spec2Model ----
(***************************************************************************)
(* A model of steamsync.py: add_games_to_shortcut_file and the tail of     *)
(* main that calls it.  The shortcut store (shortcuts.vdf) lives in a      *)
(* small file system; one run of the program reads it, merges the selected *)
(* games into it and commits it with remove/rename + open + write.  The    *)
(* program may then be run a second time on what the first run left.       *)
(* A second specification, SpecFront, covers the part of main before the   *)
(* call: the interactive selection of games and the resolution of the      *)
(* Steam account.                                                          *)
(***************************************************************************)
EXTENDS Integers, Sequences, FiniteSets, TLC

\* Python's None, for string-valued fields.
None == "None"

\* Number of selected games at most.
MaxGames == 2
\* Number of entries in the shortcut store before the first run at most.
MaxShortcuts == 2
\* Number of Steam accounts on the machine at most.
MaxAccounts == 3
\* Number of comma-separated items in one answer to filter_games at most.
MaxPicks == 2

-----------------------------------------------------------------------------
(* Python helpers *)

\* Truth value of a str-or-None: None and "" are false.
Truthy(x) == x # None /\ x # ""

\* dict.get(k): None when the key is missing.
Get(d, k) == IF k \in DOMAIN d THEN d[k] ELSE None

SetMax(S) == CHOOSE m \in S : \A x \in S : x <= m

\* Index strings are sequences of characters.
DigitChars == <<"0", "1", "2", "3", "4", "5", "6", "7", "8", "9">>

DigitValue(c) == (CHOOSE d \in 1..Len(DigitChars) : DigitChars[d] = c) - 1

\* int(idx) for a string of decimal digits.
RECURSIVE int(_)
int(idx) ==
    IF Len(idx) = 0 THEN 0
    ELSE int(SubSeq(idx, 1, Len(idx) - 1)) * Len(DigitChars) + DigitValue(idx[Len(idx)])

\* str(n) for n >= 0.
RECURSIVE str(_)
str(n) ==
    IF n < Len(DigitChars) THEN <<DigitChars[n + 1]>>
    ELSE str(n \div Len(DigitChars)) \o <<DigitChars[(n % Len(DigitChars)) + 1]>>

-----------------------------------------------------------------------------
(* The ordered dict shortcuts["shortcuts"]: a sequence of <<index, entry>>  *)
(* pairs in insertion order.                                                *)

Keys(d) == {d[j][1] : j \in 1..Len(d)}

Pos(d, k) == CHOOSE j \in 1..Len(d) : d[j][1] = k

Item(d, k) == d[Pos(d, k)][2]

\* An assignment that always makes a new item.
SetItem_always_append(d, k, v) == Append(d, <<k, v>>)

\* d[k] = v: an existing key keeps its position, a new key goes last.
SetItem(d, k, v) ==
    IF k \in Keys(d) THEN [d EXCEPT ![Pos(d, k)] = <<k, v>>]
    ELSE Append(d, <<k, v>>)

-----------------------------------------------------------------------------
(* Files.  A file name is the store path plus a backup timestamp; stamp 0   *)
(* is the store path itself, stamp t > 0 is "<store path>-<t>.bak".         *)

shortcut_file_path == [path |-> "shortcuts.vdf", stamp |-> 0]

\* A backup name that lost its suffix.
new_filename_no_suffix(timestamp) == [path |-> "shortcuts.vdf", stamp |-> 0]

new_filename(timestamp) == [path |-> "shortcuts.vdf", stamp |-> timestamp]

\* vdf.binary_dumps: the entries followed by the end-of-map marker.
binary_dumps(d) == [body |-> d, eof |-> TRUE]

\* What open(path, "wb") leaves before anything is written.
EmptyFile == [body |-> <<>>, eof |-> FALSE]

\* vdf.binary_load succeeds only on a complete file.
CanLoad(bytes) == bytes.eof

binary_load(bytes) == bytes.body

-----------------------------------------------------------------------------
(* Game definitions and shortcut entries *)

GameA ==
    [executable_path |-> "/g/a.exe", display_name |-> "A", install_folder |-> "/g",
     icon |-> "/g/a.ico", launch_arguments |-> "", uri |-> None, storetag |-> "itchio"]

\* The same executable reported by another source, with a launcher URI.
GameA2 ==
    [executable_path |-> "/g/a.exe", display_name |-> "A (Epic)", install_folder |-> "/g",
     icon |-> None, launch_arguments |-> "-epic", uri |-> "com.epicgames.launcher://apps/a",
     storetag |-> "epic"]

GameB ==
    [executable_path |-> "/g/b.exe", display_name |-> "B", install_folder |-> "/g",
     icon |-> None, launch_arguments |-> "", uri |-> "", storetag |-> "xbox"]

\* The games the sources collected (all_games).
DiscoveredGames == {GameA, GameA2, GameB}

\* A shortcut that always launches the executable.
to_shortcut_exe_only(game, uri_mode) ==
    [appname |-> game.display_name,
     Exe |-> game.executable_path,
     StartDir |-> game.install_folder,
     icon |-> game.icon,
     ShortcutPath |-> "",
     LaunchOptions |-> game.launch_arguments,
     IsHidden |-> 0,
     AllowDesktopConfig |-> 1,
     AllowOverlay |-> 1,
     openvr |-> 0,
     Devkit |-> 0,
     DevkitGameID |-> "",
     LastPlayTime |-> 0,
     tags |-> ("0" :> "steamsync" @@ "1" :> game.storetag)]

to_shortcut(game, uri_mode) ==
    LET shortcut == IF uri_mode /\ Truthy(game.uri) THEN game.uri
                    ELSE game.executable_path
    IN  [appname |-> game.display_name,
         Exe |-> shortcut,
         StartDir |-> game.install_folder,
         icon |-> game.icon,
         ShortcutPath |-> "",
         LaunchOptions |-> game.launch_arguments,
         IsHidden |-> 0,
         AllowDesktopConfig |-> 1,
         AllowOverlay |-> 1,
         openvr |-> 0,
         Devkit |-> 0,
         DevkitGameID |-> "",
         LastPlayTime |-> 0,
         tags |-> ("0" :> "steamsync" @@ "1" :> game.storetag)]

\* Entries a store can hold before the program ever ran on it: shortcuts
\* the user made in Steam (either spelling of the Exe key) and an entry
\* without a usable Exe.  Entries made by the program itself come from the
\* first run.
UserEntryA ==
    [appname |-> "My A", Exe |-> "/g/a.exe", StartDir |-> "/home", LaunchOptions |-> "-user"]

UserEntryB ==
    [appname |-> "My B", exe |-> "/g/b.exe", StartDir |-> "/home", LaunchOptions |-> ""]

MalformedEntry == [appname |-> "Broken", Exe |-> "", StartDir |-> "/home"]

ExistingEntries == {UserEntryA, UserEntryB, MalformedEntry}

ExistingIndexes == {<<"0">>, <<"5">>, <<"9">>}

\* Stores of at most MaxShortcuts entries.  Steam writes the entries in index
\* order and the program only appends past the highest index, so the file is
\* in increasing index order.
InitialStores ==
    UNION {{d \in [1..len -> ExistingIndexes \X ExistingEntries] :
                \A a, b \in 1..len : a < b => int(d[a][1]) < int(d[b][1])} : len \in 0..MaxShortcuts}

\* What filter_games (or --all) can hand to the merge: any list of discovered
\* games, repetitions included.
Selections == UNION {[1..len -> DiscoveredGames] : len \in 0..MaxGames}

-----------------------------------------------------------------------------
(* Text typed by the user or given as --steamid: a sequence of characters, *)
(* <<>> for the empty string.                                              *)

\* str.isdigit for the characters used here.
isdigit(s) ==
    /\ Len(s) > 0
    /\ \A c \in 1..Len(s) : s[c] \in {DigitChars[n] : n \in 1..Len(DigitChars)}

\* int(s) of a stripped string: decimal digits after an optional sign give
\* the number, anything else raises ValueError.
int_or_ValueError(s) ==
    IF isdigit(s) THEN [ok |-> TRUE, value |-> int(s)]
    ELSE IF Len(s) > 1 /\ s[1] \in {"-", "+"} /\ isdigit(Tail(s))
         THEN [ok |-> TRUE, value |-> IF s[1] = "-" THEN 0 - int(Tail(s)) ELSE int(Tail(s))]
         ELSE [ok |-> FALSE, value |-> 0]

\* list[k] for a list of len items: the position (from 1) of the item that
\* Python's index k names, counting from the end when k < 0; 0 when the
\* index raises IndexError.
index_position(len, k) ==
    IF 0 <= k /\ k < len THEN k + 1
    ELSE IF 0 - len <= k /\ k < 0 THEN len + k + 1
    ELSE 0

\* The text of a number.
Number(n) == IF n < 0 THEN <<"-">> \o str(0 - n) ELSE str(n)

\* What a user can type for a number from a table of len rows: nothing, a
\* word, a row number, zero, a negative number, a number past the table.
IndexTokens(len) == {<<>>, <<"x">>} \cup {Number(n) : n \in (0 - (len + 1))..(len + 1)}

\* The k-th account of the machine: the name of its userdata directory and
\* its display name.
Account(k) == [steamid |-> <<"7">> \o str(k), username |-> <<"u">> \o str(k)]

AccountPool == {Account(k) : k \in 1..MaxAccounts}

\* steamdb.enumerate_steam_accounts(): the accounts found, each one once.
AccountLists ==
    UNION {{l \in [1..len -> AccountPool] : \A a, b \in 1..len : a # b => l[a] # l[b]} :
                len \in 0..MaxAccounts}

\* A numeric id and a name that no account of the machine has.
UnknownId == <<"7", "0">>

UnknownName == <<"u", "0">>

\* Values of --steamid: the default "", an id, a username.
SteamIdArgs ==
    {<<>>, UnknownId, UnknownName}
        \cup {a.steamid : a \in AccountPool} \cup {a.username : a \in AccountPool}

\* Answers to the prompt of prompt_for_steam_account.
Choices ==
    IndexTokens(MaxAccounts) \cup {a.steamid : a \in AccountPool} \cup {UnknownId}

\* Lists of discovered games, each game once.
DiscoveredLists ==
    UNION {{l \in [1..len -> DiscoveredGames] : \A a, b \in 1..len : a # b => l[a] # l[b]} :
                len \in 0..MaxGames}

\* Answers to the prompt of filter_games, as the stripped items between the
\* commas; the blank answer is the one item "".
BlankSelection == << <<>> >>

SelectionAnswers ==
    UNION {[1..len -> IndexTokens(MaxGames)] : len \in 1..MaxPicks}

\* What a function call gave: an exception, None, or a value.
Returns(v) == [raises |-> None, none |-> FALSE, value |-> v]

ReturnsNone == [raises |-> None, none |-> TRUE, value |-> <<>>]

Raises(e) == [raises |-> e, none |-> TRUE, value |-> <<>>]

\* Lines 238-249: the loop over the items of the answer.
RECURSIVE filter_selected(_, _, _)
filter_selected(discovered, items, selected) ==
    IF items = <<>> THEN Returns(selected)
    ELSE LET idx == int_or_ValueError(Head(items))
             p == index_position(Len(discovered), idx.value - 1)
         IN  IF ~idx.ok THEN ReturnsNone
             ELSE IF p = 0 THEN Raises("IndexError")
             ELSE filter_selected(discovered, Tail(items), Append(selected, discovered[p]))

\* Lines 228-249.
filter_games(discovered, items) ==
    IF items = BlankSelection THEN Returns(discovered)
    ELSE filter_selected(discovered, items, <<>>)

\* Lines 256-290.  With no account at all, accounts[0] at line 274 raises.
prompt_for_steam_account(found, answer) ==
    IF Len(found) = 1 THEN Returns(found[1].steamid)
    ELSE IF Len(found) = 0 THEN Raises("IndexError")
    ELSE IF answer = <<>> THEN Returns(found[1].steamid)
    ELSE IF answer \in {found[a].steamid : a \in 1..Len(found)} THEN Returns(answer)
    ELSE LET idx == int_or_ValueError(answer)
             p == index_position(Len(found), idx.value - 1)
         IN  IF ~idx.ok THEN ReturnsNone
             ELSE IF idx.value <= Len(found)
                  THEN IF p = 0 THEN Raises("IndexError") ELSE Returns(found[p].steamid)
                  ELSE ReturnsNone

\* Lines 513-527: the id --steamid stands for; "" when it is a username no
\* account has.
resolve_username(found, given) ==
    IF ~isdigit(given) /\ given # <<>>
    THEN LET named == {a \in 1..Len(found) : found[a].username = given}
         IN  IF named = {} THEN <<>> ELSE found[SetMax(named)].steamid
    ELSE given

\* No account.
NoUser == [steamid |-> <<>>, username |-> <<>>]

\* Nothing was called yet.
NotCalled == [raises |-> None, none |-> TRUE, value |-> <<>>, called |-> FALSE]

Called(r) == [raises |-> r.raises, none |-> r.none, value |-> r.value, called |-> TRUE]

-----------------------------------------------------------------------------
VARIABLES
    fs,                        \* file name -> bytes, for the files that exist
    clock,                     \* the current second, as time.strftime shows it
    run,                       \* "first" or "second" run of the program
    games,                     \* the selected games
    skip_backup,               \* args.live_dangerously
    use_uri,                   \* args.use_uri
    replace_existing,          \* args.replace_existing
    download_art_unsupported,  \* args.download_art_all_shortcuts
    pc,                        \* where the run is
    shortcuts,                 \* shortcuts["shortcuts"] in memory
    path_to_index,
    art_downloads,
    last_index,
    added,
    game_results,
    done,                      \* number of games the merge loop has handled
    returned,                  \* what add_games_to_shortcut_file returned
    raised,                    \* the statement an uncaught exception came from
    exit_status,               \* exit status of the process, -1 while it runs
    fs0,                       \* history: fs when the current run started
    first_run,                 \* history: use_uri of the first run and how it ended
    all_games,                 \* the games the sources collected
    args_all,                  \* args.all
    args_steamid,              \* args.steamid
    selection,                 \* the last answer to filter_games, <<>> before it
    accounts,                  \* the enumerated accounts
    steamid,                   \* main's steamid
    choice,                    \* the last answer to prompt_for_steam_account
    prompt_returned,           \* what the last call of prompt_for_steam_account gave
    user                       \* the account the shortcuts go to

vars ==
    <<fs, clock, run, games, skip_backup, use_uri, replace_existing,
      download_art_unsupported, pc, shortcuts, path_to_index, art_downloads,
      last_index, added, game_results, done, returned, raised, exit_status,
      fs0, first_run, all_games, args_all, args_steamid, selection, accounts,
      steamid, choice, prompt_returned, user>>

args == <<games, skip_backup, replace_existing, download_art_unsupported>>

locals == <<shortcuts, path_to_index, art_downloads, last_index, added, game_results, done>>

history == <<fs0, first_run>>

front ==
    <<all_games, args_all, args_steamid, selection, accounts, steamid, choice,
      prompt_returned, user>>

NoReturn == [value |-> None, error |-> None]

EmptyIndex == [p \in {} |-> <<>>]

Init ==
    /\ \E d \in InitialStores :
          \/ fs = (shortcut_file_path :> binary_dumps(d))
          \/ d = <<>> /\ fs = [f \in {} |-> EmptyFile]
    /\ clock = 1
    /\ run = "first"
    /\ games \in Selections
    /\ skip_backup \in BOOLEAN
    /\ use_uri \in BOOLEAN
    /\ replace_existing \in BOOLEAN
    /\ download_art_unsupported \in BOOLEAN
    /\ pc = "start"
    /\ shortcuts = <<>>
    /\ path_to_index = EmptyIndex
    /\ art_downloads = 0
    /\ last_index = 0
    /\ added = 0
    /\ game_results = <<>>
    /\ done = 0
    /\ returned = NoReturn
    /\ raised = None
    /\ exit_status = -1
    /\ fs0 = fs
    /\ first_run = [use_uri |-> use_uri, raised |-> None]
    \* main came here with --all and the one account of the machine.
    /\ all_games = games
    /\ args_all = TRUE
    /\ args_steamid = <<>>
    /\ selection = <<>>
    /\ accounts = <<Account(1)>>
    /\ steamid = Account(1).steamid
    /\ choice = <<>>
    /\ prompt_returned = Called(Returns(Account(1).steamid))
    /\ user = Account(1)

-----------------------------------------------------------------------------
(* add_games_to_shortcut_file *)

NotFoundMessage == "Could not find shortcuts file"

NothingNewMessage == "No need to update shortcuts.vdf - nothing new to add"

SkipMessage(game) == <<game.display_name, ": Not creating shortcut since it already has one">>

\* An uncaught exception: the traceback ends the process with status 1.
Raise(site) ==
    /\ pc' = "exit"
    /\ raised' = site
    /\ exit_status' = 1

\* Lines 363-366: the shortcuts file does not exist.
StoreNotFound ==
    /\ pc = "start"
    /\ shortcut_file_path \notin DOMAIN fs
    /\ returned' = [value |-> None, error |-> NotFoundMessage]
    /\ pc' = "returned"
    /\ UNCHANGED <<fs, clock, run, args, front, use_uri, locals, raised, exit_status, history>>

\* The launch target of an existing entry: Exe, else exe (lines 384-386).
exe_of(v) == IF Truthy(Get(v, "Exe")) THEN Get(v, "Exe") ELSE Get(v, "exe")

\* An index in which the first entry of a path stays.
build_path_to_index_first(d) ==
    LET indexed == {j \in 1..Len(d) : Truthy(exe_of(d[j][2]))}
    IN  [p \in {exe_of(d[j][2]) : j \in indexed} |->
            d[CHOOSE j \in indexed :
                /\ exe_of(d[j][2]) = p
                /\ \A a \in indexed : exe_of(d[a][2]) = p => j <= a][1]]

\* Lines 376-393: path -> index, a later entry overwriting an earlier one.
build_path_to_index(d) ==
    LET indexed == {j \in 1..Len(d) : Truthy(exe_of(d[j][2]))}
    IN  [p \in {exe_of(d[j][2]) : j \in indexed} |->
            d[SetMax({j \in indexed : exe_of(d[j][2]) = p})][1]]

\* Lines 382, 395: the indexed entries whose art is asked for.
unsupported_entries(d, selected) ==
    {j \in 1..Len(d) :
        /\ Truthy(exe_of(d[j][2]))
        /\ exe_of(d[j][2]) \notin {selected[g].executable_path : g \in 1..Len(selected)}}

\* steamdb.download_art(user, game, should_replace_existing=False): True when
\* new art was downloaded, False when it was cached or the request failed.
download_art == BOOLEAN

\* A counter that does not look at the flag.
count_art_downloads_unguarded(enabled, success) ==
    Cardinality({j \in DOMAIN success : success[j]})

\* Lines 380, 395-409: one more download for each successful request, and
\* no request unless download_art_unsupported.
count_art_downloads(enabled, success) ==
    IF enabled THEN Cardinality({j \in DOMAIN success : success[j]}) ELSE 0

\* A last index taken over the indexed entries only.
initial_last_index_of_indexed(d) ==
    LET indexed == {j \in 1..Len(d) : Truthy(exe_of(d[j][2]))}
    IN  IF indexed = {} THEN 0 ELSE SetMax({int(d[j][1]) : j \in indexed})

\* A last index that is one short.
initial_last_index_one_short(d) ==
    IF Keys(d) = {} THEN 0 ELSE SetMax({int(k) : k \in Keys(d)}) - 1

\* Lines 418-422.
initial_last_index(d) == IF Keys(d) = {} THEN 0 ELSE SetMax({int(k) : k \in Keys(d)})

\* Lines 369-422: read the file, index its entries, ask for art, find the
\* last index.
ReadShortcuts ==
    /\ pc = "start"
    /\ shortcut_file_path \in DOMAIN fs
    /\ IF CanLoad(fs[shortcut_file_path])
       THEN LET d == binary_load(fs[shortcut_file_path])
            IN  /\ shortcuts' = d
                /\ path_to_index' = build_path_to_index(d)
                /\ \E success \in [unsupported_entries(d, games) -> download_art] :
                        art_downloads' = count_art_downloads(download_art_unsupported, success)
                /\ last_index' = initial_last_index(d)
                /\ pc' = "merge"
                /\ UNCHANGED <<raised, exit_status>>
       ELSE /\ Raise("binary_load")
            /\ UNCHANGED <<shortcuts, path_to_index, art_downloads, last_index>>
    /\ UNCHANGED <<fs, clock, run, args, front, use_uri, added, game_results, done, returned, history>>

\* Line 426.
effective_target(game, uri_mode) ==
    IF uri_mode /\ Truthy(game.uri) THEN game.uri ELSE game.executable_path

\* Lines 427-428: the index of the existing shortcut, "" when there is none.
lookup_index(index, shortcut) == IF shortcut \in DOMAIN index THEN index[shortcut] ELSE <<>>

\* Lines 425-439: one turn of the loop over the games.
MergeGame ==
    /\ pc = "merge"
    /\ done < Len(games)
    /\ LET game == games[done + 1]
           i == lookup_index(path_to_index, effective_target(game, use_uri))
       IN  IF Len(i) > 0
           THEN IF replace_existing
                THEN /\ shortcuts' = SetItem(shortcuts, i, to_shortcut(game, use_uri))
                     /\ added' = added + 1
                     /\ UNCHANGED <<game_results, last_index>>
                ELSE /\ game_results' = Append(game_results, SkipMessage(game))
                     /\ UNCHANGED <<shortcuts, added, last_index>>
           ELSE /\ last_index' = last_index + 1
                /\ shortcuts' = SetItem(shortcuts, str(last_index + 1), to_shortcut(game, use_uri))
                /\ added' = added + 1
                /\ UNCHANGED game_results
    /\ done' = done + 1
    /\ UNCHANGED <<fs, clock, run, args, front, use_uri, pc, path_to_index, art_downloads,
                   returned, raised, exit_status, history>>

\* Lines 441-445: nothing was added or replaced.
NothingToAdd ==
    /\ pc = "merge"
    /\ done = Len(games)
    /\ added = 0
    /\ returned' = [value |-> None, error |-> NothingNewMessage]
    /\ pc' = "returned"
    /\ UNCHANGED <<fs, clock, run, args, front, use_uri, locals, raised, exit_status, history>>

\* A commit that does not look at the number of added games.
Backup_without_count ==
    /\ pc = "merge"
    /\ done = Len(games)
    /\ \/ /\ skip_backup
          /\ fs' = [f \in DOMAIN fs \ {shortcut_file_path} |-> fs[f]]
          /\ pc' = "open"
          /\ UNCHANGED <<raised, exit_status>>
       \/ /\ ~skip_backup
          /\ fs' = [f \in (DOMAIN fs \ {shortcut_file_path}) \cup {new_filename(clock)} |->
                        IF f = new_filename(clock) THEN fs[shortcut_file_path] ELSE fs[f]]
          /\ pc' = "open"
          /\ UNCHANGED <<raised, exit_status>>
       \/ /\ Raise(IF skip_backup THEN "os.remove" ELSE "os.rename")
          /\ UNCHANGED fs
    /\ UNCHANGED <<clock, run, args, front, use_uri, locals, returned, history>>

\* Lines 447-455: os.remove, or os.rename to the timestamped name.  Either
\* can fail; os.rename onto an existing name replaces it or fails, by platform.
Backup ==
    /\ pc = "merge"
    /\ done = Len(games)
    /\ added # 0
    /\ \/ /\ skip_backup
          /\ fs' = [f \in DOMAIN fs \ {shortcut_file_path} |-> fs[f]]
          /\ pc' = "open"
          /\ UNCHANGED <<raised, exit_status>>
       \/ /\ ~skip_backup
          /\ fs' = [f \in (DOMAIN fs \ {shortcut_file_path}) \cup {new_filename(clock)} |->
                        IF f = new_filename(clock) THEN fs[shortcut_file_path] ELSE fs[f]]
          /\ pc' = "open"
          /\ UNCHANGED <<raised, exit_status>>
       \/ /\ Raise(IF skip_backup THEN "os.remove" ELSE "os.rename")
          /\ UNCHANGED fs
    /\ UNCHANGED <<clock, run, args, front, use_uri, locals, returned, history>>

\* Lines 457-458: encode, then open the store path for writing.
OpenForWrite ==
    /\ pc = "open"
    /\ \/ /\ fs' = (shortcut_file_path :> EmptyFile) @@ fs
          /\ pc' = "write"
          /\ UNCHANGED <<raised, exit_status>>
       \/ /\ Raise("open")
          /\ UNCHANGED fs
    /\ UNCHANGED <<clock, run, args, front, use_uri, locals, returned, history>>

\* Lines 459-464: write the bytes and return the results.
WriteShortcuts ==
    /\ pc = "write"
    /\ \/ /\ fs' = [fs EXCEPT ![shortcut_file_path] = binary_dumps(shortcuts)]
          /\ returned' = [value |-> <<game_results, added>>, error |-> None]
          /\ pc' = "returned"
          /\ UNCHANGED <<raised, exit_status>>
       \/ /\ Raise("write")
          /\ UNCHANGED <<fs, returned>>
    /\ UNCHANGED <<clock, run, args, front, use_uri, locals, history>>

-----------------------------------------------------------------------------
(* main *)

\* Lines 557-568 and 571-572: main drops what the merge returned, prints
\* "Done." and returns 0; the module calls main() without sys.exit.
MainDone ==
    /\ pc = "returned"
    /\ pc' = "exit"
    /\ exit_status' = 0
    /\ UNCHANGED <<fs, clock, run, args, front, use_uri, locals, returned, raised, history>>

\* The user runs the program again on the same selection, with --use-uri as
\* before or switched, in the same second or a later one.  The second only
\* shows in the name of a backup, so it is left alone when the first run made
\* no backup.
RunAgain ==
    /\ pc = "exit"
    /\ run = "first"
    /\ run' = "second"
    /\ clock' \in IF new_filename(clock) \in DOMAIN fs THEN {clock, clock + 1} ELSE {clock}
    /\ use_uri' \in BOOLEAN
    /\ pc' = "start"
    /\ shortcuts' = <<>>
    /\ path_to_index' = EmptyIndex
    /\ art_downloads' = 0
    /\ last_index' = 0
    /\ added' = 0
    /\ game_results' = <<>>
    /\ done' = 0
    /\ returned' = NoReturn
    /\ raised' = None
    /\ exit_status' = -1
    /\ fs0' = fs
    /\ first_run' = [use_uri |-> use_uri, raised |-> raised]
    /\ UNCHANGED <<fs, args, front>>

Next ==
    \/ StoreNotFound
    \/ ReadShortcuts
    \/ MergeGame
    \/ NothingToAdd
    \/ Backup
    \/ OpenForWrite
    \/ WriteShortcuts
    \/ MainDone
    \/ RunAgain

Spec == Init /\ [][Next]_vars

\* The behaviours of Spec under a second name: the properties that compute
\* the whole merge again in every state are model-checked apart from the
\* others.
SpecMerge == Init /\ [][Next]_vars

-----------------------------------------------------------------------------
(* main, lines 471-534: game selection and account resolution *)

\* The variables of the merge, which has not started.
merge == <<fs, clock, run, skip_backup, use_uri, replace_existing,
           download_art_unsupported, locals, returned, history>>

\* The sources have collected the games and printed the table.
InitFront ==
    /\ all_games \in DiscoveredLists
    /\ games = all_games
    /\ args_all \in BOOLEAN
    /\ args_steamid \in SteamIdArgs
    /\ selection = <<>>
    /\ accounts = <<>>
    /\ steamid = args_steamid
    /\ choice = <<>>
    /\ prompt_returned = NotCalled
    /\ user = NoUser
    /\ pc = "select"
    /\ raised = None
    /\ exit_status = -1
    /\ fs = (shortcut_file_path :> binary_dumps(<<>>))
    /\ clock = 1
    /\ run = "first"
    /\ skip_backup = FALSE
    /\ use_uri = FALSE
    /\ replace_existing = FALSE
    /\ download_art_unsupported = FALSE
    /\ shortcuts = <<>>
    /\ path_to_index = EmptyIndex
    /\ art_downloads = 0
    /\ last_index = 0
    /\ added = 0
    /\ game_results = <<>>
    /\ done = 0
    /\ returned = NoReturn
    /\ fs0 = fs
    /\ first_run = [use_uri |-> use_uri, raised |-> None]

\* Line 483: with --all every collected game is selected.
SelectAll ==
    /\ pc = "select"
    /\ args_all
    /\ pc' = "enumerate"
    /\ UNCHANGED <<games, raised, exit_status, front, merge>>

\* Lines 485-489: one turn of the loop around filter_games.  A list that is
\* not empty ends the loop; None or an empty list asks again; an exception
\* other than ValueError leaves main.
FilterGames ==
    /\ pc = "select"
    /\ ~args_all
    /\ \E answer \in SelectionAnswers :
        LET picks == filter_games(all_games, answer)
        IN  /\ selection' = answer
            /\ IF picks.raises # None
               THEN /\ Raise("filter_games")
                    /\ UNCHANGED games
               ELSE IF picks.none \/ picks.value = <<>>
               THEN UNCHANGED <<games, pc, raised, exit_status>>
               ELSE /\ games' = picks.value
                    /\ pc' = "enumerate"
                    /\ UNCHANGED <<raised, exit_status>>
    /\ UNCHANGED <<all_games, args_all, args_steamid, accounts, steamid, choice,
                   prompt_returned, user, merge>>

\* Lines 495-506: the Steam path does not exist; main returns -1, which the
\* call at line 572 drops.
SteamPathNotFound ==
    /\ pc = "enumerate"
    /\ pc' = "exit"
    /\ exit_status' = 0
    /\ UNCHANGED <<games, raised, front, merge>>

\* Lines 495-527: the accounts are enumerated and a username given as
\* --steamid is replaced by the id of the account that has it.
EnumerateAccounts ==
    /\ pc = "enumerate"
    /\ \E found \in AccountLists :
        /\ accounts' = found
        /\ steamid' = resolve_username(found, steamid)
        /\ pc' = IF resolve_username(found, steamid) = <<>> THEN "prompt" ELSE "lookup"
    /\ UNCHANGED <<games, raised, exit_status, all_games, args_all, args_steamid,
                   selection, choice, prompt_returned, user, merge>>

\* Lines 529-532: one turn of the loop around prompt_for_steam_account, which
\* reads an answer when there is more than one account.
PromptForSteamAccount ==
    /\ pc = "prompt"
    /\ \E answer \in IF Len(accounts) > 1 THEN Choices ELSE {choice} :
        LET r == prompt_for_steam_account(accounts, answer)
        IN  /\ choice' = answer
            /\ prompt_returned' = Called(r)
            /\ IF r.raises # None
               THEN /\ Raise("prompt_for_steam_account")
                    /\ UNCHANGED steamid
               ELSE IF r.none \/ r.value = <<>>
               THEN UNCHANGED <<steamid, pc, raised, exit_status>>
               ELSE /\ steamid' = r.value
                    /\ pc' = "lookup"
                    /\ UNCHANGED <<raised, exit_status>>
    /\ UNCHANGED <<games, all_games, args_all, args_steamid, selection, accounts, user, merge>>

\* Line 534: the first account with that id; next() raises StopIteration
\* when there is none.
LookupUser ==
    /\ pc = "lookup"
    /\ LET with_id == {a \in 1..Len(accounts) : accounts[a].steamid = steamid}
       IN  IF with_id = {}
           THEN /\ Raise("next")
                /\ UNCHANGED user
           ELSE /\ user' = accounts[CHOOSE a \in with_id : \A b \in with_id : a <= b]
                /\ pc' = "found"
                /\ UNCHANGED <<raised, exit_status>>
    /\ UNCHANGED <<games, all_games, args_all, args_steamid, selection, accounts, steamid,
                   choice, prompt_returned, merge>>

NextFront ==
    \/ SelectAll
    \/ FilterGames
    \/ SteamPathNotFound
    \/ EnumerateAccounts
    \/ PromptForSteamAccount
    \/ LookupUser

SpecFront == InitFront /\ [][NextFront]_vars

-----------------------------------------------------------------------------
(* Vocabulary of the properties *)

\* The store file existed and was complete when the current run started.
HasPre == shortcut_file_path \in DOMAIN fs0 /\ CanLoad(fs0[shortcut_file_path])

\* The store as the current run found it.
Pre == binary_load(fs0[shortcut_file_path])

\* The current run has read the store into memory.
Loaded == HasPre /\ pc # "start"

\* add_games_to_shortcut_file returned the results of a committed merge.
Committed == pc \in {"returned", "exit"} /\ raised = None /\ returned.error = None

\* The store path holds a complete file with exactly these entries.
StoreFileIs(d) ==
    /\ shortcut_file_path \in DOMAIN fs
    /\ fs[shortcut_file_path].eof
    /\ fs[shortcut_file_path].body = d

\* The launch targets of the games handled so far.
HandledTargets == {effective_target(games[g], use_uri) : g \in 1..done}

\* The launch targets the entries of d have.
Targets(d) == {exe_of(d[j][2]) : j \in {a \in 1..Len(d) : Truthy(exe_of(d[a][2]))}}

\* The games handled so far whose target is p.
Hits(p) == {g \in 1..done : effective_target(games[g], use_uri) = p}

-----------------------------------------------------------------------------
(* C1 *)

\* The second run has the inputs of the first, which ran to its end without
\* an exception, and replace_existing is false.
SameRunTwice ==
    /\ run = "second"
    /\ first_run = [use_uri |-> use_uri, raised |-> None]
    /\ ~replace_existing

\* C1: a second run with the inputs of the first and replace_existing false
\* is a no-op: nothing is added, no file is created, removed or written, and
\* the store in memory and on disk is the store the first run left.
C1_Idempotence ==
    SameRunTwice =>
        /\ added = 0
        /\ fs = fs0
        /\ Loaded => shortcuts = Pre
        /\ pc \notin {"open", "write"}

\* The first run committed two new entries with a backup; the second run
\* skipped both games and ended.
C1_Witness ==
    /\ SameRunTwice
    /\ pc = "exit" /\ raised = None
    /\ new_filename(1) \in DOMAIN fs
    /\ Len(game_results) = 2
    /\ returned.error = NothingNewMessage

(* C2 *)

\* C2: without replace_existing, a store with at most one entry per launch
\* target still has at most one entry per launch target after the merge.
UniqueTargets(d) ==
    \A a, b \in 1..Len(d) :
        (a # b /\ Truthy(exe_of(d[a][2]))) => exe_of(d[a][2]) # exe_of(d[b][2])

C2_UniquePerTarget ==
    (Loaded /\ ~replace_existing /\ UniqueTargets(Pre)) => UniqueTargets(shortcuts)

(* C3 *)

\* The last game handled so far whose target is p.
LastHit(p) == games[SetMax(Hits(p))]

\* The entry of the store, as the run found it, that the merge takes for the
\* shortcut of target p: the last one with that target.
IndexedPos(p) == SetMax({j \in 1..Len(Pre) : exe_of(Pre[j][2]) = p})

C4_NoWriteOnNoOp ==
    (Loaded /\ done = Len(games) /\ added = 0) =>
        /\ fs = fs0
        /\ pc \in {"merge", "returned", "exit"}
        /\ raised = None
        /\ pc # "merge" => (returned.error = NothingNewMessage /\ returned.value = None)

\* The store has the one entry "5" with Exe /g/a.exe, the one selected game
\* has that path, replace_existing is false, and the run is over.
C4_Witness ==
    /\ run = "first" /\ HasPre /\ pc = "exit"
    /\ Pre = <<<< <<"5">>, UserEntryA >>>>
    /\ games = <<GameA>> /\ ~replace_existing /\ ~use_uri
    /\ game_results = <<SkipMessage(GameA)>>
    /\ added = 0
    /\ fs = fs0

(* C5 *)

\* C5: the merge removes no index; without replace_existing every entry of
\* the store is kept with its fields; with replace_existing an entry changes
\* only if its launch target is the target of a selected game.  A committed
\* store file holds the store so merged.
C5_NoDestruction ==
    Loaded =>
        /\ \A k \in Keys(Pre) :
            /\ k \in Keys(shortcuts)
            /\ ~replace_existing => Item(shortcuts, k) = Item(Pre, k)
            /\ (replace_existing /\ Item(shortcuts, k) # Item(Pre, k)) =>
                    exe_of(Item(Pre, k)) \in HandledTargets
        /\ Committed => StoreFileIs(shortcuts)

\* A committed merge that inserted next to two existing entries and, with
\* replace_existing, replaced one of them.
C5_Witness ==
    /\ Loaded /\ Committed /\ replace_existing
    /\ Len(Pre) = 2 /\ Len(shortcuts) > 2
    /\ shortcuts[1] = Pre[1]
    /\ shortcuts[2] # Pre[2]

(* C6 *)

\* C6: with backups, once the merge is committed the file
\* <store path>-<timestamp>.bak holds what the store path held before the
\* run, the store path holds the merged store, and no other file was made,
\* removed or changed; between the rename and the write the backup is there
\* and the store path is not yet written.
C6_BackupOnCommit ==
    (Loaded /\ ~skip_backup) =>
        /\ Committed =>
            /\ new_filename(clock) \in DOMAIN fs
            /\ new_filename(clock) # shortcut_file_path
            /\ fs[new_filename(clock)] = fs0[shortcut_file_path]
            /\ StoreFileIs(shortcuts)
            /\ \A f \in (DOMAIN fs \cup DOMAIN fs0) \ {shortcut_file_path, new_filename(clock)} :
                    f \in DOMAIN fs /\ f \in DOMAIN fs0 /\ fs[f] = fs0[f]
        /\ pc \in {"open", "write"} =>
            /\ new_filename(clock) \in DOMAIN fs
            /\ fs[new_filename(clock)] = fs0[shortcut_file_path]
            /\ ~StoreFileIs(shortcuts)

\* The second run, in a later second than the first, committed with a backup
\* of its own next to the backup of the first run.
C6_Witness ==
    /\ run = "second" /\ Loaded /\ ~skip_backup /\ Committed
    /\ clock = 2
    /\ new_filename(1) \in DOMAIN fs /\ new_filename(2) \in DOMAIN fs
    /\ fs[new_filename(2)] = fs0[shortcut_file_path]
    /\ fs[new_filename(1)] # fs[new_filename(2)]

(* C7 *)

\* C7: with backups, in every state of a run that found a store file, what
\* the store path held before the run is on disk, at the store path or in
\* the backup of the run; no backup file disappears; an exception ends the
\* process with a nonzero status.
C7_Recoverable ==
    (~skip_backup /\ shortcut_file_path \in DOMAIN fs0) =>
        /\ \/ /\ shortcut_file_path \in DOMAIN fs
              /\ fs[shortcut_file_path] = fs0[shortcut_file_path]
           \/ /\ new_filename(clock) # shortcut_file_path
              /\ new_filename(clock) \in DOMAIN fs
              /\ fs[new_filename(clock)] = fs0[shortcut_file_path]
        /\ \A f \in DOMAIN fs0 \ {shortcut_file_path} : f \in DOMAIN fs
        /\ raised # None => (pc = "exit" /\ exit_status = 1)

\* The write failed after the rename: the store path holds an empty file and
\* the backup holds the store.
C7_Witness ==
    /\ ~skip_backup /\ HasPre /\ raised = "write" /\ pc = "exit"
    /\ fs[shortcut_file_path] = EmptyFile
    /\ fs[new_filename(clock)] = fs0[shortcut_file_path]
    /\ Len(Pre) > 0

(* C8 *)

C9_StoreNotFoundFatal ==
    (pc = "exit" /\ shortcut_file_path \notin DOMAIN fs0) =>
        /\ fs = fs0
        /\ returned.error = NotFoundMessage
        /\ returned.value = None
        /\ exit_status # 0

(* C10 *)

\* The highest index of a store, 0 for an empty one.
MaxIndex(d) == IF Len(d) = 0 THEN 0 ELSE SetMax({int(d[j][1]) : j \in 1..Len(d)})

\* The games handled so far that had no shortcut in the store.
NewGames ==
    LET known == Targets(Pre)
    IN  {g \in 1..done : effective_target(games[g], use_uri) \notin known}

\* C10: the k-th inserted entry has index str(max index of the store + k),
\* k for an empty store; each handled game without a shortcut has its own
\* inserted entry; the inserted indexes are above every index the store had,
\* the indexes stay distinct and the entries the store had keep their place.
C10_NextFreeIndex ==
    Loaded =>
        LET pre == Pre
            top == MaxIndex(pre)
            inserts == Cardinality(NewGames)
        IN  /\ Len(shortcuts) = Len(pre) + inserts
            /\ \A j \in 1..Len(pre) : shortcuts[j][1] = pre[j][1]
            /\ \A k \in 1..(Len(shortcuts) - Len(pre)) :
                /\ shortcuts[Len(pre) + k][1] = str(top + k)
                /\ \A j \in 1..Len(pre) : int(shortcuts[Len(pre) + k][1]) > int(pre[j][1])
            /\ Cardinality(Keys(shortcuts)) = Len(shortcuts)
            /\ last_index = top + inserts

\* Two games of different paths were inserted after the entry "9", at "10"
\* and "11", and the merge returned the count 2.
C10_Witness ==
    /\ Loaded /\ Committed /\ Len(Pre) = 1 /\ Pre[1][1] = <<"9">>
    /\ Len(shortcuts) = 3
    /\ shortcuts[2][1] = <<"1", "0">> /\ shortcuts[3][1] = <<"1", "1">>
    /\ shortcuts[2][2].Exe # shortcuts[3][2].Exe
    /\ returned.value[2] = 2

(* C11 *)

\* The second run has the selection of the first, which ran to its end
\* without an exception, and the other setting of --use-uri.
OtherModeSecond ==
    /\ run = "second"
    /\ first_run = [use_uri |-> ~use_uri, raised |-> None]
    /\ Loaded

\* The entries of d that launch what the game launches in either mode.
EntriesFor(d, game) ==
    {j \in 1..Len(d) :
        exe_of(d[j][2]) \in {effective_target(game, TRUE), effective_target(game, FALSE)}}

\* C11 as claimed: once every selected record was merged in one mode and
\* then in the other, without replace_existing, the store has two entries
\* or more for each of them.
C11_UriKeyIndependence_Original ==
    (OtherModeSecond /\ ~replace_existing /\ done = Len(games)) =>
        \A g \in 1..Len(games) : Cardinality(EntriesFor(shortcuts, games[g])) >= 2

\* C11 as amended: that holds for a record that has a URI.  Its two targets
\* differ, the shortcut found for it in the second mode is never the entry
\* built from it in the first mode, and after both merges the store has an
\* entry for each target.
C11_UriKeyIndependence ==
    OtherModeSecond =>
        \A g \in 1..done :
            Truthy(games[g].uri) =>
                LET game == games[g]
                    i == lookup_index(path_to_index, effective_target(game, use_uri))
                IN  /\ effective_target(game, TRUE) # effective_target(game, FALSE)
                    /\ Len(i) > 0 => Item(Pre, i) # to_shortcut(game, ~use_uri)
                    /\ ~replace_existing =>
                        /\ effective_target(game, TRUE) \in Targets(shortcuts)
                        /\ effective_target(game, FALSE) \in Targets(shortcuts)
                        /\ Cardinality(EntriesFor(shortcuts, game)) >= 2

\* The first run put the URI shortcut of A (Epic) into an empty store and
\* the second run, by path, put a second entry next to it.
C11_Witness ==
    /\ OtherModeSecond /\ ~replace_existing /\ ~use_uri /\ Committed
    /\ games = <<GameA2>>
    /\ Len(Pre) = 1 /\ Pre[1][2] = to_shortcut(GameA2, TRUE)
    /\ Len(shortcuts) = 2 /\ shortcuts[2][2] = to_shortcut(GameA2, FALSE)
    /\ game_results = <<>>

(* C12 *)

\* The entry has neither a usable Exe nor a usable exe.
Malformed(v) == ~Truthy(exe_of(v))

\* C12: an existing entry without a launch target is not in path_to_index,
\* keeps its index and its fields in memory and in the committed file, with
\* or without replace_existing, and every inserted index is above its index.
C12_MalformedRetained ==
    Loaded =>
        \A j \in 1..Len(Pre) :
            Malformed(Pre[j][2]) =>
                /\ \A p \in DOMAIN path_to_index : path_to_index[p] # Pre[j][1]
                /\ shortcuts[j] = Pre[j]
                /\ Committed => fs[shortcut_file_path].body[j] = Pre[j]
                /\ last_index >= int(Pre[j][1])
                /\ \A k \in (Len(Pre) + 1)..Len(shortcuts) :
                        int(shortcuts[k][1]) > int(Pre[j][1])

\* With replace_existing, a merge that replaced the entry "5" and inserted
\* at "10" was committed; the entry "9" without Exe is as it was.
C12_Witness ==
    /\ Loaded /\ Committed /\ replace_existing
    /\ Len(Pre) = 2 /\ Pre[2] = << <<"9">>, MalformedEntry >>
    /\ shortcuts[1] # Pre[1]
    /\ shortcuts[2] = Pre[2]
    /\ Len(shortcuts) = 3 /\ shortcuts[3][1] = <<"1", "0">>

(* C18 *)

\* The games handled so far that had a shortcut in the store.
KnownGames ==
    LET new == NewGames
    IN  {g \in 1..done : g \notin new}

\* C18: of the games handled so far, each one without a shortcut is an
\* insert, each one with a shortcut a replace (replace_existing) or a skip;
\* added is inserts plus replaces, there is one skip message per skip, added
\* plus the skip messages is the number of handled games, and the store has
\* grown by the number of inserts.  A committed merge returns that list of
\* messages and that count; a merge of skips only returns an error and no
\* count.
C18_MergeAccounting ==
    Loaded =>
        LET inserts == Cardinality(NewGames)
            known == Cardinality(KnownGames)
            replaces == IF replace_existing THEN known ELSE 0
            skips == IF replace_existing THEN 0 ELSE known
        IN  /\ added = inserts + replaces
            /\ Len(game_results) = skips
            /\ added + Len(game_results) = done
            /\ Len(shortcuts) = Len(Pre) + inserts
            /\ pc \notin {"start", "merge"} /\ returned.error # NotFoundMessage => done = Len(games)
            /\ Committed =>
                /\ returned.value = <<game_results, added>>
                /\ Len(fs[shortcut_file_path].body) = Len(Pre) + inserts
            /\ returned.error = NothingNewMessage =>
                added = 0 /\ Len(game_results) = Len(games)

\* A committed merge of two games: one insert and one replace, count 2.
C18_Witness ==
    /\ Loaded /\ Committed /\ replace_existing
    /\ Len(games) = 2
    /\ Cardinality(NewGames) = 1 /\ Cardinality(KnownGames) = 1
    /\ returned.value = << <<>>, 2 >>
    /\ Len(shortcuts) = Len(Pre) + 1

(* C17 *)

\* The store, the count and the skip messages after the first n games, from
\* the store d the run found, the games and the two merge options alone.
RECURSIVE MergeOf(_, _, _, _, _)
MergeOf(d, selected, n, uri_mode, replace) ==
    IF n = 0 THEN [shortcuts |-> d, added |-> 0, game_results |-> <<>>]
    ELSE LET m == MergeOf(d, selected, n - 1, uri_mode, replace)
             game == selected[n]
             target == effective_target(game, uri_mode)
             hits == {j \in 1..Len(d) : exe_of(d[j][2]) = target}
             last == SetMax(hits)
             inserted == Len(m.shortcuts) - Len(d)
         IN  IF hits = {}
             THEN [m EXCEPT !.shortcuts = Append(@, <<str(MaxIndex(d) + inserted + 1),
                                                      to_shortcut(game, uri_mode)>>),
                            !.added = @ + 1]
             ELSE IF replace
                  THEN [m EXCEPT !.shortcuts[last] = <<d[last][1], to_shortcut(game, uri_mode)>>,
                                 !.added = @ + 1]
                  ELSE [m EXCEPT !.game_results = Append(@, SkipMessage(game))]

\* The existing entries art is asked for when download_art_unsupported.
ArtRequests == unsupported_entries(Pre, games)

\* C17: the store in memory, the count and the skip messages are the ones the
\* store found, the games, use_uri and replace_existing determine, whether or
\* not art is asked for and whatever the requests return; the requests only
\* set art_downloads, which is 0 without download_art_unsupported; a merge
\* that changed something is committed with that store and that report.
C17_ArtDecoupled ==
    Loaded =>
        LET m == MergeOf(Pre, games, done, use_uri, replace_existing)
        IN  /\ added = m.added
            /\ game_results = m.game_results
            /\ shortcuts = m.shortcuts
            /\ art_downloads \in 0..Cardinality(ArtRequests)
            /\ ~download_art_unsupported => art_downloads = 0
            /\ raised \in {None, "binary_load", "os.remove", "os.rename", "open", "write"}
            /\ Committed =>
                /\ StoreFileIs(m.shortcuts)
                /\ returned.value = <<m.game_results, m.added>>

\* Art was asked for two existing entries, one request downloaded nothing,
\* and the merge of one new game was committed.
C17_Witness ==
    /\ Loaded /\ Committed /\ download_art_unsupported
    /\ Cardinality(ArtRequests) = 2
    /\ art_downloads = 1
    /\ Len(games) = 1 /\ added = 1
    /\ StoreFileIs(shortcuts) /\ Len(shortcuts) = 3

-----------------------------------------------------------------------------
(* Properties of SpecFront *)

\* The ids of the enumerated accounts.
AccountIds == {accounts[a].steamid : a \in 1..Len(accounts)}

\* The accounts have been enumerated.
Enumerated == pc \in {"prompt", "lookup", "found"} \/ raised \in {"prompt_for_steam_account", "next"}

(* C13 *)

\* C13: with exactly one account enumerated, resolution does not fail and
\* gives that account, whatever --steamid was.
C13_SingleAccountResolution ==
    (Enumerated /\ Len(accounts) = 1) =>
        /\ raised = None
        /\ prompt_returned.called =>
            ~prompt_returned.none /\ prompt_returned.value = accounts[1].steamid
        /\ pc \in {"lookup", "found"} => steamid = accounts[1].steamid
        /\ pc = "found" => user = accounts[1]

(* C14 *)

\* C14: account resolution never aborts the run: no exception leaves
\* prompt_for_steam_account or the lookup of the account, a call that gave
\* no id is followed by another prompt, and the id the account is looked up
\* with is the id of an enumerated account.
C14_ResolutionNeverFatal ==
    /\ raised \notin {"prompt_for_steam_account", "next"}
    /\ (prompt_returned.called /\ prompt_returned.none) => pc = "prompt"
    /\ pc \in {"lookup", "found"} => steamid \in AccountIds

(* C15 *)

\* C15: with more than one account, prompt_for_steam_account gives the first
\* account's id for a blank answer, the answer when it is a listed id, the
\* id of the n-th account for a table index n in 1..N, and no id for any
\* other answer.
C15_ChoiceMapping ==
    (prompt_returned.called /\ Len(accounts) > 1) =>
        LET r == prompt_returned
            idx == int_or_ValueError(choice)
        IN  IF choice = <<>>
            THEN ~r.none /\ r.value = accounts[1].steamid
            ELSE IF choice \in AccountIds
            THEN ~r.none /\ r.value = choice
            ELSE IF idx.ok /\ 1 <= idx.value /\ idx.value <= Len(accounts)
            THEN ~r.none /\ r.value = accounts[idx.value].steamid
            ELSE r.raises = None /\ r.none

(* C16 *)

\* C16: no answer to filter_games aborts the run, and the games selected in
\* the end are the discovered games that the numbers of the answer name,
\* all of them for a blank answer.
C16_SelectionRecovered ==
    /\ raised # "filter_games"
    /\ (~args_all /\ pc # "select" /\ raised # "filter_games") =>
            IF selection = BlankSelection THEN games = all_games
            ELSE /\ Len(games) = Len(selection)
                 /\ \A g \in 1..Len(selection) :
                        LET idx == int_or_ValueError(selection[g])
                        IN  /\ idx.ok
                            /\ 1 <= idx.value /\ idx.value <= Len(all_games)
                            /\ games[g] = all_games[idx.value]

(* C19 *)

\* C19: without --all, a blank answer ends the selection loop with the full
\* discovered list, the empty list included.
C19_BlankEndsSelection ==
    (~args_all /\ selection = BlankSelection) =>
        /\ pc # "select"
        /\ games = all_games

====
